---- MODULE Spec2Model ----
(***************************************************************************)
(* A model of the PDF outline extractor: the fragment merger               *)
(* (preprocessing.py), the heading scorer (rules.py), the heading          *)
(* classifier (model.py), the title selector and orchestration (run.py)    *)
(* and the hierarchy builder (linker.py).                                  *)
(*                                                                         *)
(* A Python str is a sequence of one-character strings, so that substring, *)
(* split, strip, isupper and the numbering regular expression are computed *)
(* character by character.  Python dicts that are shared by reference (the *)
(* nodes of the outline tree) live in a heap, a sequence of records that   *)
(* the stack and the outline lists index.  None is the empty sequence and  *)
(* a value v that may be None is <<v>>.  Font sizes and coordinates are    *)
(* integers; 1.8 * b < s is computed exactly as 18 * b < 10 * s.           *)
(***************************************************************************)
EXTENDS Integers, Sequences, FiniteSets, TLC

VARIABLES
    pc,                   \* position of the running function
    \* build_hierarchy (linker.py)
    document_title, classified_headings, hi, stack, nodes, origin,
    last_heading_text, parent_level,
    \* post_process_blocks (preprocessing.py): its argument, its result, and
    \* its result on that result
    blocks, merged, remerged,
    \* calculate_heading_score (rules.py): a block, the baseline, the font
    \* size of a second block that is otherwise the same, and the two scores
    scored_block, body_font_size, larger_font_size, score, score_larger,
    \* process_single_pdf (run.py): its locals and the three files it writes;
    \* a file that was not written is <<>>, a file with content c is <<c>>
    rich_text_blocks, baseline_font_size, rule_based_headings, bert_headings,
    final_headings, doc_title, flat_output, hierarchical_output, model_output

hierarchy_vars == <<document_title, classified_headings, hi, stack, nodes,
                    origin, last_heading_text, parent_level>>
merge_vars == <<blocks, merged, remerged>>
score_vars == <<scored_block, body_font_size, larger_font_size, score, score_larger>>

pipeline_vars == <<rich_text_blocks, baseline_font_size, rule_based_headings,
                   bert_headings, final_headings, doc_title, flat_output,
                   hierarchical_output, model_output>>

vars == <<pc, hierarchy_vars, merge_vars, score_vars, pipeline_vars>>

(***************************************************************************)
(* Bounds of the model.                                                    *)
(***************************************************************************)
MaxHeadings == 3
MaxBlocks == 3
MaxTextLen == 3
MaxClassifyBlocks == 2
MaxDocBlocks == 2

(***************************************************************************)
(* Python str operations.                                                  *)
(***************************************************************************)
Whitespace == {" "}
Digits == {"0", "1", "2"}
UpperCase == {"A", "B", "E", "I", "M", "P", "T", "U", "Y", "D", "O"}
LowerCase == {"a", "b", "c", "d", "e", "g", "h", "i", "k", "n", "o", "r",
              "s", "t", "u", "x", "y", "l", "m"}

SeqRange(s) == {s[k] : k \in DOMAIN s}

RECURSIVE lstrip(_)
lstrip(s) == IF s # <<>> /\ Head(s) \in Whitespace THEN lstrip(Tail(s)) ELSE s

RECURSIVE rstrip(_)
rstrip(s) ==
    IF s # <<>> /\ s[Len(s)] \in Whitespace
    THEN rstrip(SubSeq(s, 1, Len(s) - 1))
    ELSE s

\* str.strip()
strip(s) == rstrip(lstrip(s))

\* len(str.split()): the number of maximal runs of non-whitespace characters
word_count(s) ==
    Cardinality({k \in DOMAIN s :
        /\ s[k] \notin Whitespace
        /\ (k = 1 \/ s[k - 1] \in Whitespace)})

\* str.isupper(): at least one cased character and no lowercase character
isupper(s) ==
    /\ \E k \in DOMAIN s : s[k] \in UpperCase
    /\ \A k \in DOMAIN s : s[k] \notin LowerCase

\* str.endswith('.')
endswith_period(s) == s # <<>> /\ s[Len(s)] = "."

\* a in b, for two str
is_substring(a, b) ==
    \E k \in 0..(Len(b) - Len(a)) : SubSeq(b, k + 1, k + Len(a)) = a

\* sep.join(texts) with sep = " "
RECURSIVE join_space(_)
join_space(texts) ==
    IF texts = <<>> THEN <<>>
    ELSE IF Len(texts) = 1 THEN texts[1]
    ELSE texts[1] \o <<" ">> \o join_space(Tail(texts))

\* the order of Python tuples of numbers: a < b
RECURSIVE tuple_less(_, _)
tuple_less(a, b) ==
    IF a = <<>> THEN b # <<>>
    ELSE IF b = <<>> THEN FALSE
    ELSE IF Head(a) # Head(b) THEN Head(a) < Head(b)
    ELSE tuple_less(Tail(a), Tail(b))

\* sorted(s, key=...), a stable sort: keys[i] is the key of s[i]
sorted(s, keys) ==
    LET rank(i) ==
            1 + Cardinality({j \in DOMAIN s :
                    \/ tuple_less(keys[j], keys[i])
                    \/ (~tuple_less(keys[i], keys[j]) /\ j < i)})
    IN [r \in DOMAIN s |-> s[CHOOSE i \in DOMAIN s : rank(i) = r]]

\* max(s, key=...): the first element with the largest key
max_by(s, keys) ==
    s[CHOOSE i \in DOMAIN s :
        /\ \A j \in DOMAIN s : ~tuple_less(keys[i], keys[j])
        /\ \A j \in 1..(i - 1) : tuple_less(keys[j], keys[i])]

\* round(n / d) for integers n >= 0 and d > 0: Python rounds half to even
py_round_div(n, d) ==
    LET q == n \div d
        r == n % d
    IN IF 2 * r < d THEN q
       ELSE IF 2 * r > d THEN q + 1
       ELSE IF q % 2 = 0 THEN q ELSE q + 1

SetMin(S) == CHOOSE x \in S : \A y \in S : x <= y
SetMax(S) == CHOOSE x \in S : \A y \in S : y <= x

(***************************************************************************)
(* preprocessing.py: RichTextBlock and post_process_blocks.  bbox is        *)
(* <<x0, y0, x1, y1>>: Python's bbox[k] is bbox[k + 1] here.               *)
(***************************************************************************)
EMPTY == <<"[", "E", "M", "P", "T", "Y", "]">>

RichTextBlock(text, bbox, font_size, font_name, is_bold, is_italic, page_num, block_id) ==
    [text |-> text, bbox |-> bbox, font_size |-> font_size,
     font_name |-> font_name, is_bold |-> is_bold, is_italic |-> is_italic,
     page_num |-> page_num, block_id |-> block_id]

y_tolerance == 5

\* the blocks the grouping loop does not skip
is_usable(block) == strip(block.text) # <<>> /\ block.text # EMPTY

line_key(block) ==
    <<block.page_num, py_round_div(block.bbox[2], y_tolerance)>>

\* line_groups: the keys in the order of their first block, and each key's
\* blocks in the order of the input
line_groups(bs) ==
    LET usable == SelectSeq(bs, is_usable)
        first == {i \in DOMAIN usable :
                     \A j \in 1..(i - 1) : line_key(usable[j]) # line_key(usable[i])}
        IsFirst(i) == i \in first
        nth(r) == CHOOSE i \in first :
                      Cardinality({j \in first : j < i}) = r - 1
        group_of(key) ==
            LET InGroup(b) == line_key(b) = key IN SelectSeq(usable, InGroup)
    IN [r \in 1..Cardinality(first) |-> group_of(line_key(usable[nth(r)]))]

\* key=lambda b: b.bbox[0]
x0_key(b) == <<b.bbox[1]>>
\* key=lambda b: b.font_size
font_size_key(b) == <<b.font_size>>

\* the union with y0 taken from bbox[3] instead of bbox[1]
merged_bbox_slip(group) ==
    <<SetMin({group[k].bbox[1] : k \in DOMAIN group}),
      SetMin({group[k].bbox[4] : k \in DOMAIN group}),
      SetMax({group[k].bbox[3] : k \in DOMAIN group}),
      SetMax({group[k].bbox[4] : k \in DOMAIN group})>>

\* the union of the boxes of a line group
merged_bbox(group) ==
    <<SetMin({group[k].bbox[1] : k \in DOMAIN group}),
      SetMin({group[k].bbox[2] : k \in DOMAIN group}),
      SetMax({group[k].bbox[3] : k \in DOMAIN group}),
      SetMax({group[k].bbox[4] : k \in DOMAIN group})>>

\* the body of the merging loop for one line group, sorted by x0 first: the
\* merged block, or nothing when its text is blank
merge_group(unsorted) ==
    LET group == sorted(unsorted, [k \in DOMAIN unsorted |-> x0_key(unsorted[k])])
        HasText(b) == strip(b.text) # <<>>
        with_text == SelectSeq(group, HasText)
        full_text == join_space([k \in DOMAIN with_text |-> with_text[k].text])
        dominant_block == max_by(group, [k \in DOMAIN group |-> font_size_key(group[k])])
    IN IF strip(full_text) = <<>> THEN <<>>
       ELSE <<RichTextBlock(full_text, merged_bbox(group),
                            dominant_block.font_size, dominant_block.font_name,
                            dominant_block.is_bold, dominant_block.is_italic,
                            dominant_block.page_num, dominant_block.block_id)>>

RECURSIVE merge_groups(_)
merge_groups(groups) ==
    IF groups = <<>> THEN <<>>
    ELSE merge_group(Head(groups)) \o merge_groups(Tail(groups))

\* key=lambda b: (b.page_num, -len(b.text))
dedup_key(b) == <<b.page_num, -Len(b.text)>>

\* the test with == for in
seen_contains_equal(text, page_seen_texts) ==
    \E k \in DOMAIN page_seen_texts : text = page_seen_texts[k]

\* any(block.text in seen_text for seen_text in page_seen_texts)
seen_contains(text, page_seen_texts) ==
    \E k \in DOMAIN page_seen_texts : is_substring(text, page_seen_texts[k])

\* the de-duplication loop: final_blocks after the blocks of todo
RECURSIVE dedup_loop(_, _)
dedup_loop(todo, final_blocks) ==
    IF todo = <<>> THEN final_blocks
    ELSE LET block == Head(todo)
             OnPage(b) == b.page_num = block.page_num
             on_page == SelectSeq(final_blocks, OnPage)
             page_seen_texts == [k \in DOMAIN on_page |-> on_page[k].text]
         IN IF seen_contains(block.text, page_seen_texts)
            THEN dedup_loop(Tail(todo), final_blocks)
            ELSE dedup_loop(Tail(todo), Append(final_blocks, block))

\* key=lambda b: (b.page_num, b.bbox[1], b.bbox[0])
reading_key(b) == <<b.page_num, b.bbox[2], b.bbox[1]>>

keys_of_dedup(bs) == [k \in DOMAIN bs |-> dedup_key(bs[k])]
keys_of_reading(bs) == [k \in DOMAIN bs |-> reading_key(bs[k])]

post_process_blocks(bs) ==
    IF bs = <<>> THEN <<>>
    ELSE LET merged_blocks == merge_groups(line_groups(bs))
             sorted_for_dedup == sorted(merged_blocks, keys_of_dedup(merged_blocks))
             final_blocks == dedup_loop(sorted_for_dedup, <<>>)
         IN sorted(final_blocks, keys_of_reading(final_blocks))

(***************************************************************************)
(* rules.py: calculate_heading_score.                                      *)
(***************************************************************************)
\* Rule 1 with its weights exchanged between the two upper bands
size_score_swapped(font_size, base) ==
    IF 10 * font_size > 18 * base THEN 3
    ELSE IF 13 * base < 10 * font_size /\ 10 * font_size <= 18 * base THEN 5
    ELSE IF 11 * base < 10 * font_size /\ 10 * font_size <= 13 * base THEN 2
    ELSE 0

\* Rule 1: relative font size
size_score(font_size, base) ==
    IF 10 * font_size > 18 * base THEN 5
    ELSE IF 13 * base < 10 * font_size /\ 10 * font_size <= 18 * base THEN 3
    ELSE IF 11 * base < 10 * font_size /\ 10 * font_size <= 13 * base THEN 2
    ELSE 0

\* the ends e of the non-empty runs of digits text[from..e]
digit_run_ends(text, from) ==
    {e \in from..Len(text) : \A k \in from..e : text[k] \in Digits}

\* the ends of the matches of (\.\d+)* that start after position e
RECURSIVE dotted_ends(_, _)
dotted_ends(text, e) ==
    {e} \cup
    (IF e + 1 <= Len(text) /\ text[e + 1] = "."
     THEN UNION {dotted_ends(text, e2) : e2 \in digit_run_ends(text, e + 2)}
     ELSE {})

\* the ends of the matches of ^((\d+(\.\d+)*)|([A-Z]\.))
marker_ends(text) ==
    UNION {dotted_ends(text, e) : e \in digit_run_ends(text, 1)}
    \cup (IF Len(text) >= 2 /\ text[1] \in UpperCase /\ text[2] = "."
          THEN {2} ELSE {})

\* re.match(r"^((\d+(\.\d+)*)|([A-Z]\.))\s", text)
numbering_match(text) ==
    \E e \in marker_ends(text) : e + 1 <= Len(text) /\ text[e + 1] \in Whitespace

calculate_heading_score(b, base) ==
    size_score(b.font_size, base)
    + (IF b.is_bold THEN 3 ELSE 0)
    + (IF isupper(b.text) /\ word_count(b.text) > 1 THEN 2 ELSE 0)
    + (IF numbering_match(b.text) THEN 5 ELSE 0)
    + (IF word_count(b.text) < 10 THEN 1 ELSE 0)
    + (IF ~endswith_period(b.text) THEN 1 ELSE 0)

(***************************************************************************)
(* model.py: the rule-based thresholds, ClassifiedHeading, classify_blocks. *)
(* A confidence is a number of tenths: 0.9 is 9.                           *)
(***************************************************************************)
H1_THRESHOLD == 10
H2_THRESHOLD == 7
H3_THRESHOLD == 4
RULE_CONFIDENCE == 9
HEADER_X1 == 50
FOOTER_Y1 == 742

\* the ClassifiedHeading dataclass; parent_id is always 0 and gt_text ""
ClassifiedHeading(id, label, order, confidence, text, box, page, heading_level) ==
    [id |-> id, label |-> label, parent_id |-> 0, order |-> order,
     confidence |-> confidence, text |-> text, gt_text |-> <<>>, box |-> box,
     page |-> page, heading_level |-> heading_level]

\* the bands with > for >=
get_heading_level_strict(b, base) ==
    LET sc == calculate_heading_score(b, base)
    IN IF sc > H1_THRESHOLD THEN <<1>>
       ELSE IF sc > H2_THRESHOLD THEN <<2>>
       ELSE IF sc > H3_THRESHOLD THEN <<3>>
       ELSE <<>>

\* the level 1, 2 or 3 as <<level>>, or None as <<>>
get_heading_level_rule_based(b, base) ==
    LET sc == calculate_heading_score(b, base)
    IN IF sc >= H1_THRESHOLD THEN <<1>>
       ELSE IF sc >= H2_THRESHOLD THEN <<2>>
       ELSE IF sc >= H3_THRESHOLD THEN <<3>>
       ELSE <<>>

\* f"h{level}"
heading_level_name(level) ==
    CASE level = 1 -> "h1"
      [] level = 2 -> "h2"
      [] OTHER -> "h3"

\* the header/footer filter of both paths
in_margin(box) == box[3] < HEADER_X1 \/ box[4] > FOOTER_Y1

\* the rule-based loop of classify_blocks from block i on
RECURSIVE classify_rule_based(_, _, _)
classify_rule_based(bs, base, i) ==
    IF i > Len(bs) THEN <<>>
    ELSE LET b == bs[i]
             level == get_heading_level_rule_based(b, base)
             rest == classify_rule_based(bs, base, i + 1)
         IN IF in_margin(b.bbox) \/ level = <<>> THEN rest
            ELSE <<ClassifiedHeading(i,
                       IF level[1] > 1 THEN "section-title" ELSE "title",
                       level[1] - 1, RULE_CONFIDENCE, b.text, b.bbox,
                       b.page_num, heading_level_name(level[1]))>> \o rest

\* CompactDocumentModel.predict: the heading level of a label and an order
predicted_level(label, order) ==
    IF label \in {"title", "section-title"}
    THEN IF order <= 1 THEN "h1" ELSE IF order <= 3 THEN "h2" ELSE "h3"
    ELSE "other"

\* get_heading_level_bert, then the filter of classify_blocks, from block i
\* on; predictions[i] is what the model returns for block i: a record of
\* label, order and confidence
RECURSIVE classify_bert(_, _, _)
classify_bert(bs, predictions, i) ==
    IF i > Len(bs) THEN <<>>
    ELSE LET b == bs[i]
             pred == predictions[i]
             rest == classify_bert(bs, predictions, i + 1)
         IN IF pred.label \notin {"title", "section-title"} \/ in_margin(b.bbox)
            THEN rest
            ELSE <<ClassifiedHeading(i, pred.label, pred.order,
                       pred.confidence, b.text, b.bbox, b.page_num,
                       predicted_level(pred.label, pred.order))>> \o rest

\* classify_blocks; predictions is read on the BERT path only
classify_blocks(bs, base, use_bert, predictions) ==
    IF ~use_bert THEN classify_rule_based(bs, base, 1)
    ELSE classify_bert(bs, predictions, 1)

(***************************************************************************)
(* linker.py: build_hierarchy.                                             *)
(***************************************************************************)
level_map(heading_level) ==
    CASE heading_level = "h1" -> 1
      [] heading_level = "h2" -> 2
      [] heading_level = "h3" -> 3
      [] OTHER -> 4

\* f"H{current_level}"
level_name(current_level) ==
    CASE current_level = 1 -> "H1"
      [] current_level = 2 -> "H2"
      [] current_level = 3 -> "H3"
      [] OTHER -> "H4"

\* node.get("level_val", 0)
get_level_val(node) ==
    IF "level_val" \in DOMAIN node THEN node.level_val ELSE 0

root_node(title) == [title |-> title, outline |-> <<>>]

new_heading_node(heading) ==
    [level |-> level_name(level_map(heading.heading_level)),
     text |-> heading.text,
     page |-> heading.page,
     outline |-> <<>>,
     level_val |-> level_map(heading.heading_level)]

\* the de-duplication test left out
is_duplicate_never(heading, last) == FALSE

\* the de-duplication test of the loop
is_duplicate(heading, last) == last = <<heading.text>>

\* the while condition with > for >=
must_pop_strict(stk, p_level, current_level) ==
    stk # <<>> /\ p_level > current_level

\* the while condition comparing with the level above the heading's
must_pop_root(stk, p_level, current_level) ==
    stk # <<>> /\ p_level >= current_level - 1

\* the condition of the re-parenting while loop
must_pop(stk, p_level, current_level) ==
    stk # <<>> /\ p_level >= current_level

\* the new node put in front of the parent's children
append_child_front(heap, parent, heading) ==
    LET new_id == Len(heap) + 1
        linked == [heap EXCEPT ![parent].outline = <<new_id>> \o @]
    IN Append(linked, new_heading_node(heading))

\* correct_parent_node["outline"].append(new_heading_node)
append_child(heap, parent, heading) ==
    LET new_id == Len(heap) + 1
        linked == [heap EXCEPT ![parent].outline = Append(@, new_id)]
    IN Append(linked, new_heading_node(heading))

\* cleanup_keys: the traversal from the root that deletes level_val
RECURSIVE cleanup_from(_, _)
cleanup_from(heap, todo) ==
    IF todo = <<>> THEN heap
    ELSE LET id == Head(todo)
             node == heap[id]
             cleaned ==
                 IF "level_val" \in DOMAIN node
                 THEN [f \in (DOMAIN node) \ {"level_val"} |-> node[f]]
                 ELSE node
         IN cleanup_from([heap EXCEPT ![id] = cleaned],
                         node.outline \o Tail(todo))

cleanup_keys(heap) == cleanup_from(heap, <<1>>)

\* the while loop of build_hierarchy run to its end
RECURSIVE pop_stack(_, _, _)
pop_stack(heap, stk, level) ==
    IF must_pop(stk, get_level_val(heap[stk[Len(stk)]]), level)
    THEN pop_stack(heap, SubSeq(stk, 1, Len(stk) - 1), level)
    ELSE stk

\* the for loop of build_hierarchy from heading i on: the heap it leaves
RECURSIVE build_loop(_, _, _, _, _)
build_loop(heap, stk, last, headings, i) ==
    IF i > Len(headings) THEN heap
    ELSE IF is_duplicate(headings[i], last)
    THEN build_loop(heap, stk, last, headings, i + 1)
    ELSE LET popped == pop_stack(heap, stk, level_map(headings[i].heading_level))
         IN build_loop(append_child(heap, popped[Len(popped)], headings[i]),
                       Append(popped, Len(heap) + 1),
                       <<headings[i].text>>, headings, i + 1)

\* the dict a node of the heap stands for, with its outline nested
RECURSIVE nested(_, _)
nested(heap, id) ==
    [heap[id] EXCEPT !.outline = [k \in DOMAIN @ |-> nested(heap, @[k])]]

\* build_hierarchy as one call: the root dict it returns
build_hierarchy(title, headings) ==
    nested(cleanup_keys(build_loop(<<root_node(title)>>, <<1>>, <<>>, headings, 1)), 1)

current_heading == classified_headings[hi]
current_level == level_map(current_heading.heading_level)

\* for heading in classified_headings: a heading whose text repeats the last
\* accepted heading is skipped
ForSkip ==
    /\ pc = "for"
    /\ hi <= Len(classified_headings)
    /\ is_duplicate(current_heading, last_heading_text)
    /\ hi' = hi + 1
    /\ UNCHANGED <<pc, document_title, classified_headings, stack, nodes,
                   origin, last_heading_text, parent_level, merge_vars, score_vars, pipeline_vars>>

\* the heading is accepted: read the level of the top of the stack
ForAccept ==
    /\ pc = "for"
    /\ hi <= Len(classified_headings)
    /\ ~is_duplicate(current_heading, last_heading_text)
    /\ parent_level' = get_level_val(nodes[stack[Len(stack)]])
    /\ pc' = "while"
    /\ UNCHANGED <<document_title, classified_headings, hi, stack, nodes,
                   origin, last_heading_text, merge_vars, score_vars, pipeline_vars>>

\* one iteration of the while loop; stack[-1] on an empty stack raises
WhilePop ==
    /\ pc = "while"
    /\ must_pop(stack, parent_level, current_level)
    /\ stack' = SubSeq(stack, 1, Len(stack) - 1)
    /\ IF stack' = <<>>
       THEN pc' = "IndexError" /\ UNCHANGED parent_level
       ELSE /\ parent_level' = get_level_val(nodes[stack'[Len(stack')]])
            /\ UNCHANGED pc
    /\ UNCHANGED <<document_title, classified_headings, hi, nodes, origin,
                   last_heading_text, merge_vars, score_vars, pipeline_vars>>

\* the while loop is left: attach the new node and push it
Attach ==
    /\ pc = "while"
    /\ ~must_pop(stack, parent_level, current_level)
    /\ IF stack = <<>>
       THEN pc' = "IndexError"
            /\ UNCHANGED <<hi, stack, nodes, origin, last_heading_text>>
       ELSE /\ nodes' = append_child(nodes, stack[Len(stack)], current_heading)
            /\ stack' = Append(stack, Len(nodes) + 1)
            /\ origin' = Append(origin, hi)
            /\ last_heading_text' = <<current_heading.text>>
            /\ hi' = hi + 1
            /\ pc' = "for"
    /\ UNCHANGED <<document_title, classified_headings, parent_level,
                   merge_vars, score_vars, pipeline_vars>>

\* the loop is over: cleanup_keys(root); return root
Cleanup ==
    /\ pc = "for"
    /\ hi > Len(classified_headings)
    /\ nodes' = cleanup_keys(nodes)
    /\ pc' = "returned"
    /\ UNCHANGED <<document_title, classified_headings, hi, stack, origin,
                   last_heading_text, parent_level, merge_vars, score_vars, pipeline_vars>>

(***************************************************************************)
(* SpecHierarchy: build_hierarchy run statement by statement on every      *)
(* heading list of at most MaxHeadings headings.                           *)
(***************************************************************************)
HeadingTexts == {<<"a">>, <<"b">>}
HeadingPages == {0, 1}
HeadingLevels == {"h1", "h2", "h3", "other"}
TitleA == <<"a">>

HeadingBox == <<60, 100, 200, 110>>

HeadingPool ==
    {ClassifiedHeading(0, IF l = "h1" THEN "title" ELSE "section-title",
                       level_map(l) - 1, 9, t, HeadingBox, p, l) :
        t \in HeadingTexts, p \in HeadingPages, l \in HeadingLevels}

SeqsUpTo(S, n) == UNION {[1..k -> S] : k \in 0..n}

\* the state of build_hierarchy before its loop
HierarchyStart(title, headings) ==
    /\ document_title = title
    /\ classified_headings = headings
    /\ hi = 1
    /\ nodes = <<root_node(title)>>
    /\ stack = <<1>>
    /\ origin = <<0>>
    /\ last_heading_text = <<>>
    /\ parent_level = 0

\* the variables of post_process_blocks while it is not running
MergeIdle == blocks = <<>> /\ merged = <<>> /\ remerged = <<>>

\* the variables of calculate_heading_score while it is not running
ScoreIdle ==
    /\ scored_block = <<>>
    /\ body_font_size = 0
    /\ larger_font_size = 0
    /\ score = 0
    /\ score_larger = 0

\* the variables of process_single_pdf while it is not running
PipelineIdle ==
    /\ rich_text_blocks = <<>>
    /\ baseline_font_size = 0
    /\ rule_based_headings = <<>>
    /\ bert_headings = <<>>
    /\ final_headings = <<>>
    /\ doc_title = <<>>
    /\ flat_output = <<>>
    /\ hierarchical_output = <<>>
    /\ model_output = <<>>

InitHierarchy ==
    /\ pc = "for"
    /\ MergeIdle
    /\ ScoreIdle
    /\ PipelineIdle
    /\ \E headings \in SeqsUpTo(HeadingPool, MaxHeadings) :
           HierarchyStart(TitleA, headings)

NextHierarchy == ForSkip \/ ForAccept \/ WhilePop \/ Attach \/ Cleanup

SpecHierarchy == InitHierarchy /\ [][NextHierarchy]_vars

(***************************************************************************)
(* The returned tree.                                                      *)
(***************************************************************************)
NodeIds == DOMAIN nodes
Children(id) == nodes[id].outline

\* the level value of a returned node, read from its "level" ("H2" is 2);
\* the root, which has no "level", counts as 0
ReturnedLevel(id) ==
    IF "level" \notin DOMAIN nodes[id] THEN 0
    ELSE CASE nodes[id].level = "H1" -> 1
           [] nodes[id].level = "H2" -> 2
           [] nodes[id].level = "H3" -> 3
           [] OTHER -> 4

\* C1: in the tree build_hierarchy returns, every non-root node has a level
\* value strictly greater than its parent's (the root counting as 0), every
\* non-root node has exactly one parent, and the children of every node are
\* in the relative order of their headings in the input list.
C1_LevelNesting ==
    pc = "returned" =>
        /\ \A p \in NodeIds : \A k \in DOMAIN Children(p) :
               /\ ReturnedLevel(Children(p)[k]) > ReturnedLevel(p)
               /\ \A j \in DOMAIN Children(p) :
                      j < k => origin[Children(p)[j]] < origin[Children(p)[k]]
        /\ \A c \in NodeIds \ {1} :
               Cardinality({<<p, k>> \in NodeIds \X (1..Len(nodes)) :
                   k \in DOMAIN Children(p) /\ Children(p)[k] = c}) = 1

\* a returned tree with two siblings under a heading node
C1_Witness ==
    /\ pc = "returned"
    /\ \E p \in NodeIds \ {1} : Len(Children(p)) >= 2

\* C2: a heading is skipped exactly when its text equals the text of the
\* immediately preceding accepted heading, whatever its level or page; so a
\* heading gets a node exactly when it is the first of its run of
\* consecutive headings with the same text, and the tree has one node per run.
Accepted == {origin[id] : id \in NodeIds \ {1}}

LastAcceptedBefore(i) ==
    LET before == {j \in Accepted : j < i}
    IN IF before = {} THEN <<>>
       ELSE <<classified_headings[CHOOSE j \in before :
                  \A m \in before : m <= j].text>>

RunStarts ==
    {i \in DOMAIN classified_headings :
        i = 1 \/ classified_headings[i].text # classified_headings[i - 1].text}

C2_AdjacentDedup ==
    pc = "returned" =>
        /\ \A i \in DOMAIN classified_headings :
               i \notin Accepted <=>
                   LastAcceptedBefore(i) = <<classified_headings[i].text>>
        /\ Accepted = RunStarts
        /\ Len(nodes) - 1 = Cardinality(RunStarts)

\* a run of two equal texts at different levels collapsed, and the same text
\* accepted again after a different one
C2_Witness ==
    /\ pc = "returned"
    /\ Len(classified_headings) = 3
    /\ classified_headings[1].text = classified_headings[2].text
    /\ classified_headings[1].heading_level # classified_headings[2].heading_level
    /\ Accepted = {1, 3}

(***************************************************************************)
(* SpecMerge: post_process_blocks applied to every list of at most         *)
(* MaxBlocks fragments of FragmentPool, and then to its own result.        *)
(***************************************************************************)
FragmentTexts == {<<"a">>, <<"b">>, <<"a", " ", "b">>}
\* <<page, x0, y0>>: two places on one line of page 0, another line of page
\* 0, and a line of page 1
FragmentPlaces == {<<0, 0, 3>>, <<0, 60, 7>>, <<0, 0, 20>>, <<1, 0, 3>>}
\* <<font_size, font_name, is_bold>>
FragmentFonts == {<<10, "helvetica", FALSE>>, <<12, "helvetica-bold", TRUE>>}
FragmentWidth == 50
FragmentHeight == 10

Fragment(text, place, font) ==
    RichTextBlock(text,
                  <<place[2], place[3], place[2] + FragmentWidth,
                    place[3] + FragmentHeight>>,
                  font[1], font[2], font[3], FALSE, place[1], 0)

\* both fonts on the line of page 0 that has two places, the first font on
\* the other lines, and a blank and an [EMPTY] fragment
FragmentPool ==
    {Fragment(t, p, f) : t \in FragmentTexts, p \in {<<0, 0, 3>>, <<0, 60, 7>>},
                         f \in FragmentFonts}
    \cup {Fragment(t, p, <<10, "helvetica", FALSE>>) :
              t \in FragmentTexts, p \in FragmentPlaces}
    \cup {Fragment(t, <<0, 0, 20>>, <<10, "helvetica", FALSE>>) :
              t \in {<<" ">>, EMPTY}}

\* extract_rich_text_blocks numbers the blocks it appends from 0
with_block_ids(bs) == [k \in DOMAIN bs |-> [bs[k] EXCEPT !.block_id = k - 1]]

HierarchyIdle ==
    /\ document_title = <<>>
    /\ classified_headings = <<>>
    /\ hi = 0
    /\ nodes = <<>>
    /\ stack = <<>>
    /\ origin = <<>>
    /\ last_heading_text = <<>>
    /\ parent_level = 0

InitMerge ==
    /\ pc = "input"
    /\ HierarchyIdle
    /\ ScoreIdle
    /\ PipelineIdle
    /\ \E bs \in SeqsUpTo(FragmentPool, MaxBlocks) : blocks = with_block_ids(bs)
    /\ merged = <<>>
    /\ remerged = <<>>

Merge ==
    /\ pc = "input"
    /\ merged' = post_process_blocks(blocks)
    /\ pc' = "merged"
    /\ UNCHANGED <<blocks, remerged, hierarchy_vars, score_vars, pipeline_vars>>

MergeAgain ==
    /\ pc = "merged"
    /\ remerged' = post_process_blocks(merged)
    /\ pc' = "remerged"
    /\ UNCHANGED <<blocks, merged, hierarchy_vars, score_vars, pipeline_vars>>

NextMerge == Merge \/ MergeAgain

SpecMerge == InitMerge /\ [][NextMerge]_vars

\* C3: post_process_blocks applied to its own result returns that result
\* unchanged: the same fragments, field by field, in the same order.
C3_MergeIdempotent == pc = "remerged" => remerged = merged

\* the first pass merged a line and dropped a fragment, and kept two or more
C3_Witness ==
    /\ pc = "remerged"
    /\ Len(blocks) = 3
    /\ Len(merged) = 2
    /\ \E k \in DOMAIN merged : \A i \in DOMAIN blocks : merged[k].text # blocks[i].text

\* C4: the result of post_process_blocks holds no two distinct fragments of
\* one page with the text of one a substring of (or equal to) the text of the
\* other, and it is sorted by (page, y0, x0).
C4_NoSubstringSorted ==
    pc = "merged" =>
        /\ \A i, j \in DOMAIN merged :
               (i # j /\ merged[i].page_num = merged[j].page_num)
                   => ~is_substring(merged[i].text, merged[j].text)
        /\ \A i, j \in DOMAIN merged : i < j =>
                  ~tuple_less(reading_key(merged[j]), reading_key(merged[i]))

\* a fragment was dropped because a line merged from two fragments contains
\* its text
C4_Witness ==
    /\ pc = "merged"
    /\ Len(blocks) = 3
    /\ Len(merged) = 1
    /\ merged[1].text = <<"a", " ", "b">>
    /\ \A i \in DOMAIN blocks : Len(blocks[i].text) = 1 /\ is_usable(blocks[i])

(***************************************************************************)
(* SpecScore: calculate_heading_score on a block and on the same block     *)
(* with a larger font size, for every text of at most MaxTextLen           *)
(* characters of ScoreAlphabet, some longer texts, and the font sizes      *)
(* around the band limits of the two baselines.                            *)
(***************************************************************************)
ScoreAlphabet == {"1", ".", " ", "A", "a"}

Introduction == <<"1", ".", " ", "I", "n", "t", "r", "o", "d", "u", "c", "t", "i", "o", "n">>
BodyText == <<"T", "h", "i", "s", " ", "i", "s", " ", "b", "o", "d", "y", " ", "t", "e", "x", "t", ".">>
Background == <<"1", ".", "1", " ", "B", "a", "c", "k", "g", "r", "o", "u", "n", "d">>

\* n words "a" separated by single spaces
RECURSIVE words_a(_)
words_a(n) == IF n <= 1 THEN <<"a">> ELSE <<"a", " ">> \o words_a(n - 1)

ScoreTexts ==
    UNION {[1..k -> ScoreAlphabet] : k \in 1..MaxTextLen}
    \cup {Introduction, BodyText, Background, words_a(9), words_a(10),
          <<"2", ".", "1", " ", "a">>, <<"A", " ", "A", ".">>}

ScoreBaselines == {10, 12}
ScoreFontSizes == {10, 11, 12, 13, 14, 15, 16, 18, 19, 21, 22}

ScoreBox == <<60, 100, 200, 110>>

InitScore ==
    /\ pc = "block"
    /\ HierarchyIdle
    /\ MergeIdle
    /\ PipelineIdle
    /\ \E t \in ScoreTexts, fs \in ScoreFontSizes, bold \in BOOLEAN :
           scored_block = RichTextBlock(t, ScoreBox, fs, "helvetica", bold, FALSE, 0, 0)
    /\ body_font_size \in ScoreBaselines
    /\ larger_font_size \in {fs \in ScoreFontSizes : fs >= scored_block.font_size}
    /\ score = 0
    /\ score_larger = 0

Score ==
    /\ pc = "block"
    /\ score' = calculate_heading_score(scored_block, body_font_size)
    /\ score_larger' =
           calculate_heading_score([scored_block EXCEPT !.font_size = larger_font_size],
                                   body_font_size)
    /\ pc' = "scored"
    /\ UNCHANGED <<scored_block, body_font_size, larger_font_size, hierarchy_vars,
                   merge_vars, pipeline_vars>>

NextScore == Score

SpecScore == InitScore /\ [][NextScore]_vars

\* C5: for a positive baseline and two fragments that differ only in font
\* size, the one with the larger font size scores at least as much.
C5_ScoreMonotone == pc = "scored" => score_larger >= score

\* the larger font size moved the block from the middle band to the top one
C5_Witness ==
    /\ pc = "scored"
    /\ larger_font_size > scored_block.font_size
    /\ score_larger = score + 2

\* the numbering signal as the table words it: a leading marker "1.", "2.1"
\* or "A.", that is a dotted number with or without a closing period, or a
\* capital letter and a period, followed by whitespace
claimed_marker(text) ==
    \/ numbering_match(text)
    \/ \E e \in UNION {dotted_ends(text, d) : d \in digit_run_ends(text, 1)} :
           /\ e + 2 <= Len(text)
           /\ text[e + 1] = "."
           /\ text[e + 2] \in Whitespace

claimed_score(b, base) ==
    (IF 10 * b.font_size > 18 * base THEN 5
     ELSE IF 10 * b.font_size > 13 * base THEN 3
     ELSE IF 10 * b.font_size > 11 * base THEN 2
     ELSE 0)
    + (IF b.is_bold THEN 3 ELSE 0)
    + (IF isupper(b.text) /\ word_count(b.text) > 1 THEN 2 ELSE 0)
    + (IF claimed_marker(b.text) THEN 5 ELSE 0)
    + (IF word_count(b.text) < 10 THEN 1 ELSE 0)
    + (IF ~endswith_period(b.text) THEN 1 ELSE 0)

\* C8: the score is exactly the sum of the weights of the signals of the
\* table that hold; in particular a text that starts with a digit run, a
\* period and whitespace earns the numbering weight.
C8_ScoreIsSignalSum ==
    pc = "scored" => score = claimed_score(scored_block, body_font_size)

(***************************************************************************)
(* SpecClassify: classify_blocks in rule-based mode on every list of at    *)
(* most MaxClassifyBlocks fragments of ClassifyPool and on the three       *)
(* fragments of the worked example, followed by build_hierarchy on the     *)
(* headings it returns.                                                    *)
(***************************************************************************)
ClassifyTexts == {<<"A">>, <<"a", ".">>, <<"1", " ", "a">>}
ClassifyFontSizes == {10, 12, 19}
\* a box clear of the margins, one that ends left of x = 50, one that ends
\* below y = 742
ClassifyBoxes == {<<40, 100, 50, 742>>, <<40, 100, 49, 742>>, <<40, 100, 50, 743>>}

ClassifyPool ==
    {RichTextBlock(t, box, fs, "helvetica", bold, FALSE, 0, 0) :
        t \in ClassifyTexts, box \in ClassifyBoxes, fs \in ClassifyFontSizes,
        bold \in BOOLEAN}

ExampleFragments ==
    <<RichTextBlock(Introduction, <<60, 100, 200, 118>>, 18, "helvetica-bold", TRUE, FALSE, 0, 0),
      RichTextBlock(BodyText, <<60, 130, 200, 142>>, 12, "helvetica", FALSE, FALSE, 0, 1),
      RichTextBlock(Background, <<60, 160, 200, 174>>, 14, "helvetica-bold", TRUE, FALSE, 0, 2)>>

InitClassify ==
    /\ pc = "classify"
    /\ HierarchyIdle
    /\ PipelineIdle
    /\ merged = <<>>
    /\ remerged = <<>>
    /\ scored_block = <<>>
    /\ larger_font_size = 0
    /\ score = 0
    /\ score_larger = 0
    /\ \/ /\ \E bs \in SeqsUpTo(ClassifyPool, MaxClassifyBlocks) :
                 blocks = with_block_ids(bs)
          /\ body_font_size \in ScoreBaselines
       \/ /\ blocks = ExampleFragments
          /\ body_font_size = 12

\* classify_blocks(blocks, body_font_size, use_bert=False), and the entry of
\* build_hierarchy with its result
ClassifyRule ==
    /\ pc = "classify"
    /\ classified_headings' = classify_blocks(blocks, body_font_size, FALSE, <<>>)
    /\ document_title' = TitleA
    /\ hi' = 1
    /\ nodes' = <<root_node(TitleA)>>
    /\ stack' = <<1>>
    /\ origin' = <<0>>
    /\ last_heading_text' = <<>>
    /\ parent_level' = 0
    /\ pc' = "for"
    /\ UNCHANGED <<merge_vars, score_vars, pipeline_vars>>

NextClassify == ClassifyRule \/ ForSkip \/ ForAccept \/ WhilePop \/ Attach \/ Cleanup

SpecClassify == InitClassify /\ [][NextClassify]_vars

ScoreOf(k) == calculate_heading_score(blocks[k], body_font_size)

\* the fragments the rule-based path must promote
Promoted ==
    {k \in DOMAIN blocks :
        /\ blocks[k].bbox[3] >= 50
        /\ blocks[k].bbox[4] <= 742
        /\ ScoreOf(k) >= 4}

\* C9: in rule-based mode classify_blocks emits exactly one heading for each
\* fragment with box.x1 >= 50, box.y1 <= 742 and score >= 4 and none for any
\* other; the heading is H1 for a score >= 10, H2 for 7..9, H3 for 4..6, its
\* order is its level number minus 1, its confidence 0.9, and the headings
\* are in the order of their fragments.
C9_RuleBasedClassification ==
    pc # "classify" =>
        /\ Len(classified_headings) = Cardinality(Promoted)
        /\ {classified_headings[n].id : n \in DOMAIN classified_headings} = Promoted
        /\ \A m, n \in DOMAIN classified_headings :
               m < n => classified_headings[m].id < classified_headings[n].id
        /\ \A n \in DOMAIN classified_headings :
               LET h == classified_headings[n]
                   sc == ScoreOf(h.id)
                   level == IF sc >= 10 THEN 1 ELSE IF sc >= 7 THEN 2 ELSE 3
               IN /\ h.heading_level = <<"h1", "h2", "h3">>[level]
                  /\ h.order = level - 1
                  /\ h.confidence = 9
                  /\ h.text = blocks[h.id].text
                  /\ h.page = blocks[h.id].page_num
                  /\ h.box = blocks[h.id].bbox

\* two fragments classified, one at score 10 (H1) and one at score 9 (H2),
\* none of them in the margins
C9_Witness ==
    /\ pc = "returned"
    /\ Len(blocks) = 2
    /\ Len(classified_headings) = 2
    /\ ScoreOf(1) = 10 /\ classified_headings[1].heading_level = "h1"
    /\ ScoreOf(2) = 9 /\ classified_headings[2].heading_level = "h2"

\* C6: with baseline 12 the three fragments of the worked example score
\* >= 10, < 4 and >= 7, and rule-based classification followed by
\* build_hierarchy gives a root whose only child is the H1 node
\* "1. Introduction", whose only child is the H2 node "1.1 Background".
C6_WorkedExample ==
    (pc = "returned" /\ blocks = ExampleFragments /\ body_font_size = 12) =>
        /\ ScoreOf(1) >= 10
        /\ ScoreOf(2) < 4
        /\ ScoreOf(3) >= 7
        /\ Len(nodes) = 3
        /\ nodes[1].outline = <<2>>
        /\ nodes[2] = [level |-> "H1", text |-> Introduction, page |-> 0,
                       outline |-> <<3>>]
        /\ nodes[3] = [level |-> "H2", text |-> Background, page |-> 0,
                       outline |-> <<>>]

(***************************************************************************)
(* preprocessing.py: get_document_baseline_font_size; run.py.              *)
(***************************************************************************)
DEFAULT_FONT_SIZE == 12
LONG_TEXT_WORDS == 50
TITLE_CANDIDATES == 10

UntitledDocument == <<"U", "n", "t", "i", "t", "l", "e", "d", " ", "D", "o", "c", "u", "m", "e", "n", "t">>

\* Counter(font_sizes).most_common(1)[0][0]: the most frequent value, the
\* first one seen among equally frequent ones
most_common(values) ==
    LET count(v) == Cardinality({k \in DOMAIN values : values[k] = v})
        first(v) == CHOOSE k \in DOMAIN values :
                        values[k] = v /\ \A j \in 1..(k - 1) : values[j] # v
    IN CHOOSE v \in SeqRange(values) :
           \A w \in SeqRange(values) :
               \/ count(w) < count(v)
               \/ (count(w) = count(v) /\ first(v) <= first(w))

get_document_baseline_font_size(bs) ==
    LET IsBody(b) == ~b.is_bold /\ word_count(b.text) < LONG_TEXT_WORDS
        body == SelectSeq(bs, IsBody)
        font_sizes == IF body # <<>> THEN [k \in DOMAIN body |-> body[k].font_size]
                      ELSE [k \in DOMAIN bs |-> bs[k].font_size]
    IN IF bs = <<>> \/ font_sizes = <<>> THEN DEFAULT_FONT_SIZE
       ELSE most_common(font_sizes)

\* block_map = {b.text: b for b in blocks}: the last block with the text
block_map(bs, text) ==
    bs[CHOOSE k \in DOMAIN bs :
           bs[k].text = text /\ \A j \in (k + 1)..Len(bs) : bs[j].text # text]

\* the H1 step with each heading looked up at its own index, not by its text
title_from_h1_by_id(bs, headings) ==
    LET IsH1(h) == h.heading_level = "h1" /\ h.page = 0
        page_zero_h1 == SelectSeq(headings, IsH1)
    IN IF page_zero_h1 = <<>> THEN <<>>
       ELSE <<max_by(page_zero_h1,
                     [k \in DOMAIN page_zero_h1 |->
                         <<bs[page_zero_h1[k].id].font_size>>]).text>>

\* the H1 step of find_document_title: <<title>>, or <<>> to fall through
title_from_h1(bs, headings) ==
    LET IsH1(h) == h.heading_level = "h1" /\ h.page = 0
        page_zero_h1 == SelectSeq(headings, IsH1)
        IsValid(h) == \E k \in DOMAIN bs : bs[k].text = h.text
        valid_h1 == SelectSeq(page_zero_h1, IsValid)
    IN IF page_zero_h1 = <<>> \/ valid_h1 = <<>> THEN <<>>
       ELSE <<max_by(valid_h1,
                     [k \in DOMAIN valid_h1 |->
                         <<block_map(bs, valid_h1[k].text).font_size>>]).text>>

\* block.text.strip() and block.text != "[EMPTY]"
has_title_text(b) == strip(b.text) # <<>> /\ b.text # EMPTY

\* the fallback on the first blocks of page 0
title_from_first_page(bs) ==
    LET OnPageZero(b) == b.page_num = 0
        page_zero == SelectSeq(bs, OnPageZero)
        first_page_blocks ==
            SubSeq(page_zero, 1, IF Len(page_zero) < TITLE_CANDIDATES
                                 THEN Len(page_zero) ELSE TITLE_CANDIDATES)
        title_block ==
            max_by(first_page_blocks,
                   [k \in DOMAIN first_page_blocks |->
                       font_size_key(first_page_blocks[k])])
    IN IF first_page_blocks # <<>> /\ has_title_text(title_block)
       THEN <<title_block.text>>
       ELSE <<>>

\* the final fallback: the first block with a text
title_from_any(bs) ==
    LET with_text == SelectSeq(bs, has_title_text)
    IN IF with_text # <<>> THEN <<with_text[1].text>> ELSE <<>>

\* the first of the steps that gives a title, or the default
first_title(h1, first_page, any) ==
    IF h1 # <<>> THEN h1[1]
    ELSE IF first_page # <<>> THEN first_page[1]
    ELSE IF any # <<>> THEN any[1]
    ELSE UntitledDocument

find_document_title(bs, headings) ==
    IF bs = <<>> THEN UntitledDocument
    ELSE first_title(title_from_h1(bs, headings), title_from_first_page(bs),
                     title_from_any(bs))

\* heading.heading_level.upper()
upper_level(heading_level) ==
    CASE heading_level = "h1" -> "H1"
      [] heading_level = "h2" -> "H2"
      [] heading_level = "h3" -> "H3"
      [] OTHER -> "OTHER"

\* the object save_flat_output writes
flat_document(headings, title) ==
    [title |-> title,
     outline |-> [k \in DOMAIN headings |->
                     [level |-> upper_level(headings[k].heading_level),
                      text |-> headings[k].text,
                      page |-> headings[k].page]]]

\* the title filter applied to the children of the top-level nodes too
hierarchical_document_deep(headings, title) ==
    LET hierarchical_outline == build_hierarchy(title, headings).outline
        Kept(h) == strip(h.text) # <<>> /\ h.text # title
        kept == SelectSeq(hierarchical_outline, Kept)
    IN [title |-> title,
        outline |-> [k \in DOMAIN kept |->
                        [level |-> kept[k].level,
                         text |-> kept[k].text,
                         page |-> kept[k].page,
                         outline |-> SelectSeq(kept[k].outline, Kept)]]]

\* the object save_hierarchical_output writes
hierarchical_document(headings, title) ==
    LET hierarchical_outline == build_hierarchy(title, headings).outline
        Kept(h) == strip(h.text) # <<>> /\ h.text # title
        kept == SelectSeq(hierarchical_outline, Kept)
    IN [title |-> title,
        outline |-> [k \in DOMAIN kept |->
                        [level |-> kept[k].level,
                         text |-> kept[k].text,
                         page |-> kept[k].page,
                         outline |-> kept[k].outline]]]

\* the test that skips a document without blocks: never
is_empty_extraction_never(bs) == FALSE

\* if not rich_text_blocks
is_empty_extraction(bs) == bs = <<>>

page_count(bs) == SetMax({bs[k].page_num : k \in DOMAIN bs}) + 1

\* the minimum that ignores the number of pages
min_headings_three(bs) == 3

\* max(3, page_count)
min_headings(bs) == IF page_count(bs) > 3 THEN page_count(bs) ELSE 3

(***************************************************************************)
(* Spec: process_single_pdf on every document of at most MaxDocBlocks      *)
(* extracted fragments of DocPool, on RunningTitleDocument, on            *)
(* SparseDocument and on LongDocument.  The extractor and the BERT model   *)
(* are outside the program: the fragments and the predictions are inputs.  *)
(***************************************************************************)
DocTexts == {<<"A">>, <<"1", " ", "a">>, <<"2", " ", "a">>}
\* <<page, x0, y0>>: two lines of page 0 and a line of page 1
DocPlaces == {<<0, 60, 100>>, <<0, 60, 200>>, <<1, 60, 100>>}
\* <<font_size, font_name, is_bold>>
DocFonts == {<<10, "helvetica", FALSE>>, <<19, "helvetica-bold", TRUE>>,
             <<20, "helvetica-bold", TRUE>>}

\* the block the extractor makes of a page on which OCR finds nothing
EmptyPage == RichTextBlock(EMPTY, <<0, 0, 612, 792>>, 12, "OCR", FALSE, FALSE, 1, 0)

DocPool ==
    {Fragment(t, p, f) : t \in DocTexts, p \in DocPlaces, f \in DocFonts}
    \cup {EmptyPage}

\* eleven numbered lines on page 0, the last one in the largest font
LongDocument ==
    [k \in 1..11 |->
        RichTextBlock(<<"1", " ", "a">> \o words_a(k),
                      <<60, 50 * k, 200, 50 * k + 10>>,
                      IF k = 11 THEN 20 ELSE 10, "helvetica", FALSE, FALSE, 0,
                      k - 1)]

\* two numbered headings on page 0, and the text of the first one again on
\* page 1 in the body font
RunningTitleDocument ==
    with_block_ids(
        <<Fragment(<<"1", " ", "a">>, <<0, 60, 100>>, <<20, "helvetica-bold", TRUE>>),
          Fragment(<<"2", " ", "a">>, <<0, 60, 200>>, <<19, "helvetica-bold", TRUE>>),
          Fragment(<<"1", " ", "a">>, <<1, 60, 100>>, <<10, "helvetica", FALSE>>)>>)

\* three headings on pages 0 to 2 and a sentence on page 3: as many
\* rule-based headings as 3, fewer than pages
SparseDocument ==
    with_block_ids(
        <<Fragment(<<"1", " ", "a">>, <<0, 60, 100>>, <<19, "helvetica-bold", TRUE>>),
          Fragment(<<"2", " ", "a">>, <<1, 60, 100>>, <<19, "helvetica-bold", TRUE>>),
          Fragment(<<"A">>, <<2, 60, 100>>, <<19, "helvetica-bold", TRUE>>),
          Fragment(<<"a", ".">>, <<3, 60, 100>>, <<10, "helvetica", FALSE>>)>>)

Documents ==
    {with_block_ids(bs) : bs \in SeqsUpTo(DocPool, MaxDocBlocks)}
    \cup {RunningTitleDocument, SparseDocument, LongDocument}

\* label, order and confidence as the model returns them for one block
PredictionPool ==
    {[label |-> "other", order |-> 0, confidence |-> 5],
     [label |-> "title", order |-> 1, confidence |-> 8],
     [label |-> "section-title", order |-> 3, confidence |-> 5],
     [label |-> "section-title", order |-> 4, confidence |-> 5]}

Init ==
    /\ pc = "start"
    /\ HierarchyIdle
    /\ MergeIdle
    /\ ScoreIdle
    /\ PipelineIdle

\* rich_text_blocks = extract_rich_text_blocks(processing_path)
Extract ==
    /\ pc = "start"
    /\ \E initial_blocks \in Documents :
           rich_text_blocks' = post_process_blocks(initial_blocks)
    /\ pc' = "extracted"
    /\ UNCHANGED <<baseline_font_size, rule_based_headings, bert_headings,
                   final_headings, doc_title, flat_output, hierarchical_output,
                   model_output, hierarchy_vars, merge_vars, score_vars>>

\* if not rich_text_blocks: return
SkipDocument ==
    /\ pc = "extracted"
    /\ is_empty_extraction(rich_text_blocks)
    /\ pc' = "skipped"
    /\ UNCHANGED <<pipeline_vars, hierarchy_vars, merge_vars, score_vars>>

\* the baseline and the rule-based classification; max() of no page numbers
\* raises, and the handler of process_single_pdf only prints
ClassifyRuleBased ==
    /\ pc = "extracted"
    /\ ~is_empty_extraction(rich_text_blocks)
    /\ baseline_font_size' = get_document_baseline_font_size(rich_text_blocks)
    /\ rule_based_headings' =
           classify_blocks(rich_text_blocks, baseline_font_size', FALSE, <<>>)
    /\ final_headings' = rule_based_headings'
    /\ pc' = IF rich_text_blocks = <<>> THEN "exception" ELSE "fallback"
    /\ UNCHANGED <<rich_text_blocks, bert_headings, doc_title, flat_output,
                   hierarchical_output, model_output, hierarchy_vars,
                   merge_vars, score_vars>>

\* too few rule-based headings: classify_blocks(..., use_bert=True)
FallbackToBert ==
    /\ pc = "fallback"
    /\ Len(rule_based_headings) < min_headings(rich_text_blocks)
    /\ \E predictions \in [DOMAIN rich_text_blocks -> PredictionPool] :
           bert_headings' =
               <<classify_blocks(rich_text_blocks, baseline_font_size, TRUE,
                                 predictions)>>
    /\ final_headings' = bert_headings'[1]
    /\ pc' = "title"
    /\ UNCHANGED <<rich_text_blocks, baseline_font_size, rule_based_headings,
                   doc_title, flat_output, hierarchical_output, model_output,
                   hierarchy_vars, merge_vars, score_vars>>

\* enough rule-based headings: final_headings stays rule_based_headings
KeepRuleBased ==
    /\ pc = "fallback"
    /\ ~(Len(rule_based_headings) < min_headings(rich_text_blocks))
    /\ pc' = "title"
    /\ UNCHANGED <<pipeline_vars, hierarchy_vars, merge_vars, score_vars>>

\* doc_title = find_document_title(rich_text_blocks, final_headings)
FindTitle ==
    /\ pc = "title"
    /\ doc_title' = find_document_title(rich_text_blocks, final_headings)
    /\ pc' = "save_flat"
    /\ UNCHANGED <<rich_text_blocks, baseline_font_size, rule_based_headings,
                   bert_headings, final_headings, flat_output,
                   hierarchical_output, model_output, hierarchy_vars,
                   merge_vars, score_vars>>

SaveFlat ==
    /\ pc = "save_flat"
    /\ flat_output' = <<flat_document(final_headings, doc_title)>>
    /\ pc' = "save_hierarchical"
    /\ UNCHANGED <<rich_text_blocks, baseline_font_size, rule_based_headings,
                   bert_headings, final_headings, doc_title,
                   hierarchical_output, model_output, hierarchy_vars,
                   merge_vars, score_vars>>

SaveHierarchical ==
    /\ pc = "save_hierarchical"
    /\ hierarchical_output' = <<hierarchical_document(final_headings, doc_title)>>
    /\ pc' = "save_model"
    /\ UNCHANGED <<rich_text_blocks, baseline_font_size, rule_based_headings,
                   bert_headings, final_headings, doc_title, flat_output,
                   model_output, hierarchy_vars, merge_vars, score_vars>>

\* if bert_headings is not None: save_model_output(bert_headings, ...)
SaveModel ==
    /\ pc = "save_model"
    /\ bert_headings # <<>>
    /\ model_output' = <<bert_headings[1]>>
    /\ pc' = "finished"
    /\ UNCHANGED <<rich_text_blocks, baseline_font_size, rule_based_headings,
                   bert_headings, final_headings, doc_title, flat_output,
                   hierarchical_output, hierarchy_vars, merge_vars, score_vars>>

Finish ==
    /\ pc = "save_model"
    /\ bert_headings = <<>>
    /\ pc' = "finished"
    /\ UNCHANGED <<pipeline_vars, hierarchy_vars, merge_vars, score_vars>>

Next ==
    \/ Extract
    \/ SkipDocument
    \/ ClassifyRuleBased
    \/ FallbackToBert
    \/ KeepRuleBased
    \/ FindTitle
    \/ SaveFlat
    \/ SaveHierarchical
    \/ SaveModel
    \/ Finish

Spec == Init /\ [][Next]_vars

NothingWritten ==
    flat_output = <<>> /\ hierarchical_output = <<>> /\ model_output = <<>>

EmptyOutline == [title |-> UntitledDocument, outline |-> <<>>]

\* C7 as stated: when the fragment list of a document is empty, the
\* pipeline's output for it is the outline with title "Untitled Document"
\* and an empty outline list.
C7_EmptyDocumentOutput ==
    (rich_text_blocks = <<>> /\ pc \in {"skipped", "exception", "finished"}) =>
        /\ flat_output = <<EmptyOutline>>
        /\ hierarchical_output = <<EmptyOutline>>

\* C7 amended: for an empty fragment list find_document_title returns
\* "Untitled Document" and build_hierarchy of no headings returns a root
\* with no children, but process_single_pdf skips the document and writes
\* no output for it.
C7_EmptyDocumentSkipped ==
    (rich_text_blocks = <<>> /\ pc # "start") =>
        /\ pc \in {"extracted", "skipped"}
        /\ NothingWritten
        /\ find_document_title(rich_text_blocks, final_headings) = UntitledDocument
        /\ build_hierarchy(UntitledDocument, final_headings) = EmptyOutline

\* a document without fragments was skipped
C7_Witness == pc = "skipped" /\ rich_text_blocks = <<>>

\* the title as C10 words it: the H1 of page 0 whose own source fragment is
\* largest, else the largest of the first 10 fragments of page 0 if it has a
\* text, else the first fragment with a text, else "Untitled Document"
claimed_title(bs, headings) ==
    first_title(title_from_h1_by_id(bs, headings), title_from_first_page(bs),
                title_from_any(bs))

\* C10: find_document_title returns the first match of the four steps, the
\* first of them choosing the page-0 H1 whose own source fragment has the
\* largest font size, ties going to the first candidate.
C10_TitleSelection ==
    pc \in {"save_flat", "save_hierarchical", "save_model", "finished"} =>
        doc_title = claimed_title(rich_text_blocks, final_headings)

\* the positions of process_single_pdf after the rule-based classification
AfterRuleBased ==
    {"fallback", "title", "save_flat", "save_hierarchical", "save_model",
     "finished"}

\* the positions after the choice between the two results
AfterFallback ==
    {"title", "save_flat", "save_hierarchical", "save_model", "finished"}

\* max(3, pageCount), pageCount being the last page with a fragment plus one
claimed_min_headings ==
    LET pageCount ==
            SetMax({rich_text_blocks[k].page_num : k \in DOMAIN rich_text_blocks}) + 1
    IN IF pageCount > 3 THEN pageCount ELSE 3

\* the rule-based result has fewer headings than max(3, pageCount)
InsufficientHeadings == Len(rule_based_headings) < claimed_min_headings

\* the result C11 says is used
claimed_final_headings ==
    IF InsufficientHeadings THEN bert_headings[1] ELSE rule_based_headings

\* C11: in process_single_pdf the rule-based classification runs first;
\* the ML classification runs if and only if the rule-based result has
\* fewer than max(3, pageCount) headings, and then its result, empty or
\* not, is the one the title, the flat output and the hierarchical output
\* are made of; otherwise they are made of the rule-based result and the ML
\* classification never runs.
C11_FallbackPolicy ==
    /\ bert_headings # <<>> => pc \in AfterFallback
    /\ pc \in AfterRuleBased =>
           rule_based_headings =
               classify_blocks(rich_text_blocks,
                               get_document_baseline_font_size(rich_text_blocks),
                               FALSE, <<>>)
    /\ pc \in AfterFallback =>
           /\ bert_headings # <<>> <=> InsufficientHeadings
           /\ final_headings = claimed_final_headings
    /\ pc \in AfterFallback \ {"title"} =>
           doc_title = find_document_title(rich_text_blocks, claimed_final_headings)
    /\ pc \in {"save_hierarchical", "save_model", "finished"} =>
           flat_output = <<flat_document(claimed_final_headings, doc_title)>>
    /\ pc \in {"save_model", "finished"} =>
           hierarchical_output =
               <<hierarchical_document(claimed_final_headings, doc_title)>>
    /\ pc = "finished" => (model_output # <<>> <=> InsufficientHeadings)
    /\ pc # "exception"

\* a document of four pages with three rule-based headings was finished
\* with the empty result of the ML classification
C11_Witness ==
    /\ pc = "finished"
    /\ Len(rule_based_headings) = 3
    /\ claimed_min_headings = 4
    /\ bert_headings = <<(<<>>)>>
    /\ flat_output = <<[title |-> doc_title, outline |-> <<>>]>>
    /\ hierarchical_output = <<[title |-> doc_title, outline |-> <<>>]>>

\* the top-level nodes of the tree build_hierarchy returns for the headings
\* and the title in use
top_level_nodes == build_hierarchy(doc_title, final_headings).outline

\* the positions of the top-level nodes with a non-blank text that is not
\* the title
kept_positions ==
    {k \in DOMAIN top_level_nodes :
        /\ strip(top_level_nodes[k].text) # <<>>
        /\ top_level_nodes[k].text # doc_title}

\* the j-th position of kept_positions in increasing order
kept_position(j) ==
    CHOOSE k \in kept_positions :
        Cardinality({m \in kept_positions : m < k}) = j - 1

\* C12: the outline save_hierarchical_output writes is exactly the
\* top-level nodes of the tree of build_hierarchy whose text is non-blank
\* and is not the document title, in their order, each with its whole
\* subtree unchanged: the title comparison is not applied below the top
\* level, and nothing of a removed top-level node is written.
C12_TopLevelTitleFilter ==
    pc \in {"save_model", "finished"} =>
        /\ Len(hierarchical_output) = 1
        /\ hierarchical_output[1].title = doc_title
        /\ Len(hierarchical_output[1].outline) = Cardinality(kept_positions)
        /\ \A j \in DOMAIN hierarchical_output[1].outline :
               hierarchical_output[1].outline[j] = top_level_nodes[kept_position(j)]

\* a written top-level node has a child whose text is the document title
C12_Witness ==
    /\ pc = "finished"
    /\ \E j \in DOMAIN hierarchical_output[1].outline :
           \E k \in DOMAIN hierarchical_output[1].outline[j].outline :
               hierarchical_output[1].outline[j].outline[k].text = doc_title

\* the level values of the nodes on the stack, bottom first
stack_levels == [k \in DOMAIN stack |-> get_level_val(nodes[stack[k]])]

\* C13: build_hierarchy never raises: at every step of its loop the stack
\* is non-empty with the root at its bottom, the level values on the stack
\* increase strictly from bottom to top, and when the re-parenting while
\* loop is left the top of the stack has a level strictly smaller than the
\* current heading's.
C13_StackDiscipline ==
    /\ pc # "IndexError"
    /\ stack # <<>> /\ stack[1] = 1
    /\ pc \in {"for", "while"} =>
           \A j, k \in DOMAIN stack : j < k => stack_levels[j] < stack_levels[k]
    /\ pc = "while" =>
           /\ parent_level = stack_levels[Len(stack)]
           /\ ~must_pop(stack, parent_level, current_level) =>
                  stack_levels[Len(stack)] < current_level

\* the while loop is left after a pop with a heading node as the parent
C13_Witness ==
    /\ pc = "while"
    /\ ~must_pop(stack, parent_level, current_level)
    /\ Len(stack) >= 2
    /\ stack[Len(stack)] # Len(nodes)

\* the nodes below the root in pre-order: a node, then its children from
\* left to right, each with its own subtree
RECURSIVE preorder_from(_, _)
preorder_from(heap, todo) ==
    IF todo = <<>> THEN <<>>
    ELSE <<Head(todo)>> \o preorder_from(heap, heap[Head(todo)].outline \o Tail(todo))

preorder == preorder_from(nodes, nodes[1].outline)

\* the headings that are not skipped, in input order: the first of every
\* run of consecutive headings with the same text
accepted_headings ==
    LET nth(j) == CHOOSE i \in RunStarts :
                      Cardinality({m \in RunStarts : m < i}) = j - 1
    IN [j \in 1..Cardinality(RunStarts) |-> classified_headings[nth(j)]]

\* C14: the pre-order traversal of the tree build_hierarchy returns lists
\* exactly the accepted headings, once each and in input order, every node
\* with the text, the page and the level of its heading, and no returned
\* node has the level_val field.
C14_PreorderIsInputOrder ==
    pc = "returned" =>
        /\ Len(preorder) = Len(accepted_headings)
        /\ \A j \in DOMAIN preorder :
               /\ nodes[preorder[j]].text = accepted_headings[j].text
               /\ nodes[preorder[j]].page = accepted_headings[j].page
               /\ nodes[preorder[j]].level =
                      level_name(level_map(accepted_headings[j].heading_level))
        /\ \A j, k \in DOMAIN preorder : j # k => preorder[j] # preorder[k]
        /\ {preorder[j] : j \in DOMAIN preorder} = NodeIds \ {1}
        /\ \A id \in NodeIds : "level_val" \notin DOMAIN nodes[id]

\* a returned tree whose first top-level node has a child and is followed
\* by a second top-level node
C14_Witness ==
    /\ pc = "returned"
    /\ Len(Children(1)) = 2
    /\ Len(Children(Children(1)[1])) = 1
    /\ Len(preorder) = 3

====
